---- MODULE Spec2Model ----
(***************************************************************************)
(* glob-watcher: the watch() entry point (glob classification, the         *)
(* "Nothing to watch" failure) and the run coordinator returned by         *)
(* getEventHandler (debounce, isRunning / isQueued, error reporting).      *)
(*                                                                         *)
(* Time is discrete.  The event loop is single threaded, so every handler  *)
(* (a watcher event, the debounce timer's expiry, a task's completion      *)
(* callback, a caller adding or removing an 'error' listener) is one       *)
(* atomic action.                                                          *)
(***************************************************************************)
EXTENDS Integers, Sequences, FiniteSets, TLC

\* ---------------------------------------------------------------- bounds
MaxEvents == 3      \* watcher events delivered in one behaviour
MaxTime == 6        \* clock ticks in one behaviour
Delay == 2          \* the `delay` option, in ticks
MaxListeners == 1   \* 'error' listeners the caller may have registered
MaxGlobs == 2       \* length of the glob array passed to watch()
MaxPatterns == 3    \* length of the glob array the ignore predicate is built from

\* ---------------------------------------------------------------- values
Paths == {"a.js", "b.js"}
NoPath == "none"
Errors == {"e1", "e2"}
NoError == "null"
\* Characters of a raw glob: the negation mark, the extglob parenthesis, a letter
NoWatch == "Nothing to watch"
\* The second argument of a watcher event: absent, or the fs.Stats object of
\* the file; the object is no run count and is coded outside the counts 1, 2, ...
NoStats == 0
Stats == 0 - 1
\* What asyncDone calls the function it is given with
Callback == "callback"

VARIABLES
    queue,          \* config.queue handed to getEventHandler
    isRunning,      \* closure variable of getEventHandler
    isQueued,       \* closure variable of getEventHandler
    timer,          \* just-debounce: the pending timeout and the latest arguments
    now,            \* the clock
    nEvents,        \* watcher events delivered so far
    lastEventAt,    \* when the most recent subscribed event was delivered
    timerN,         \* just-debounce: the second of the latest arguments
    burst,          \* events coalesced in the pending debounce window
    lastBurst,      \* size of the burst whose window expired last
    fires,          \* debounce windows that expired so far
    burstBase,      \* invocations started before the current burst began
    burstIdle,      \* whether the coordinator was Idle when that burst began
    runs,           \* every task invocation started, in order, with its history
    errorListeners, \* watcher.listenerCount('error')
    emitted,        \* 'error' events emitted on the watcher, in order
    thrown,         \* an exception escaped into the timer / callback machinery
    wGlob,          \* watch(): the caller's glob array
    wHasDone,       \* watch(): whether a task function was passed
    wResult,        \* watch(): what the call did
    wEventsOpt,     \* watch(): options.events as the caller passed it
    lastName,       \* name of the event the watcher emitted last
    seenNames,      \* names of the events the watcher emitted so far
    gInput,         \* watch(): the glob array as the caller wrote it
    gGlob,          \* watch(): the caller's glob array, as it is now
    gCwd,           \* watch(): options.cwd
    gIgnoredOpt,    \* watch(): options.ignored as the caller passed it
    gConfig,        \* watch(): the arrays and the config it built
    gPath,          \* isPathIgnored(path): the path of the last call
    gAnswer,        \* isPathIgnored(path): what the last call returned
    debounced,      \* the coordinator of getDebounced, given the same steps
    closures,       \* two getEventHandler calls: the state each closure holds
    watchers        \* two watch() calls: what happened on each watcher

coordVars == <<queue, isRunning, isQueued, timer, now, nEvents, lastEventAt, timerN, burst, lastBurst,
               fires, burstBase, burstIdle, runs, errorListeners, emitted, thrown>>
watchVars == <<wGlob, wHasDone, wResult>>
subVars == <<wEventsOpt, lastName, seenNames>>
globVars == <<gInput, gGlob, gCwd, gIgnoredOpt, gConfig, gPath, gAnswer>>
peerVars == <<debounced, closures, watchers>>
vars == <<queue, isRunning, isQueued, timer, now, nEvents, lastEventAt, timerN, burst, lastBurst,
          fires, burstBase, burstIdle, runs, errorListeners, emitted, thrown, wGlob, wHasDone, wResult,
          wEventsOpt, lastName, seenNames,
          gInput, gGlob, gCwd, gIgnoredOpt, gConfig, gPath, gAnswer,
          debounced, closures, watchers>>

\* ------------------------------------------------ the run coordinator's code
NoTimer == [armed |-> FALSE, deadline |-> 0, path |-> NoPath]
Quiet == [events |-> <<>>, thrown |-> FALSE]

\* getListenerCount(eventEmitter, 'error') !== 0
HasErrorListener(listeners) == listeners # 0

\* watcher.emit('error', e): an EventEmitter with no 'error' listener throws e
Emit(listeners, e) ==
    IF listeners = 0
    THEN [events |-> <<>>, thrown |-> TRUE]
    ELSE [events |-> <<e>>, thrown |-> FALSE]

\* Mutant: the failure is dropped even when a consumer is listening
HandleErrorSilent(listeners, e) == Quiet

\* Mutant: the emit is not guarded by hasErrorListener
HandleErrorUnguarded(listeners, e) == Emit(listeners, e)

\* handleError: if (hasErrorListener(watcher)) watcher.emit('error', e)
HandleError(listeners, e) ==
    IF HasErrorListener(listeners) THEN Emit(listeners, e) ELSE Quiet

\* Mutant: the isRunning test is inverted
OnRunStartFlipped(isR, isQ, q, path, n) ==
    IF ~isR
    THEN [isRunning |-> isR,
          isQueued |-> IF q THEN TRUE ELSE isQ,
          invoke |-> <<>>]
    ELSE [isRunning |-> isR,
          isQueued |-> isQ,
          invoke |-> <<[path |-> path, n |-> n]>>]

\* Mutant: isRunning is set when the task is started, and nothing resets it
OnRunStartMarksRunning(isR, isQ, q, path, n) ==
    IF isR
    THEN [isRunning |-> isR,
          isQueued |-> IF q THEN TRUE ELSE isQ,
          invoke |-> <<>>]
    ELSE [isRunning |-> TRUE,
          isQueued |-> isQ,
          invoke |-> <<[path |-> path, n |-> n]>>]

\* Mutant: starting the task also marks a rerun as queued
OnRunStartQueuesToo(isR, isQ, q, path, n) ==
    IF isR
    THEN [isRunning |-> isR,
          isQueued |-> IF q THEN TRUE ELSE isQ,
          invoke |-> <<>>]
    ELSE [isRunning |-> isR,
          isQueued |-> TRUE,
          invoke |-> <<[path |-> path, n |-> n]>>]

\* onRunStart(path, n): what it leaves in isRunning / isQueued, and the task
\* invocation it hands to asyncDone (a sequence of zero or one invocation)
OnRunStart(isR, isQ, q, path, n) ==
    IF isR
    THEN [isRunning |-> isR,
          isQueued |-> IF q THEN TRUE ELSE isQ,
          invoke |-> <<>>]
    ELSE [isRunning |-> isR,
          isQueued |-> isQ,
          invoke |-> <<[path |-> path, n |-> n]>>]

\* Mutant: a failed run leaves the coordinator marked as running
OnRunEndStuck(isR, isQ, q, listeners, e, path, n) ==
    LET h == IF e # NoError THEN HandleError(listeners, e) ELSE Quiet
    IN  [isRunning |-> IF e # NoError THEN TRUE ELSE isR, isQueued |-> isQ,
         invoke |-> <<>>, events |-> h.events, thrown |-> h.thrown]

\* onRunEnd(e) of the invocation made for (path, n)
OnRunEnd(isR, isQ, q, listeners, e, path, n) ==
    LET h == IF e # NoError THEN HandleError(listeners, e) ELSE Quiet
    IN  IF h.thrown
        THEN [isRunning |-> isR, isQueued |-> isQ, invoke |-> <<>>,
              events |-> h.events, thrown |-> TRUE]
        ELSE IF isQ
        THEN LET s == OnRunStart(TRUE, FALSE, q, path, n + 1)
             IN  [isRunning |-> s.isRunning, isQueued |-> s.isQueued,
                  invoke |-> s.invoke, events |-> h.events, thrown |-> FALSE]
        ELSE [isRunning |-> isR, isQueued |-> isQ, invoke |-> <<>>,
              events |-> h.events, thrown |-> FALSE]

\* Mutant: a call while a timeout is pending keeps that timeout (no re-arming)
DebouncedNoReset(t, time, path) ==
    IF t.armed
    THEN [t EXCEPT !.path = path]
    ELSE [armed |-> TRUE, deadline |-> time + Delay, path |-> path]

\* debounce(onRunStart, delay): a call clears the pending timeout, arms a new
\* one `delay` from now and keeps the latest arguments
Debounced(t, time, path) ==
    [armed |-> TRUE, deadline |-> time + Delay, path |-> path]

\* onRunStart (path, n = 1): the default applies to an absent argument only
DefaultN(n) == IF n = NoStats THEN 1 ELSE n

\* Mutant: the task is called with asyncDone's arguments alone
TaskArgumentsCallbackOnly(args, path, n) == args

\* done(...args, path, n): the arguments the task is called with
TaskArguments(args, path, n) == args \o <<path, n>>

\* ------------------------------------------------ history of the invocations
NewRun(inv, time) ==
    [path |-> inv.path, n |-> inv.n, start |-> time, done |-> FALSE,
     args |-> TaskArguments(<<Callback>>, inv.path, inv.n),
     endAt |-> 0, err |-> NoError, listenersAtEnd |-> 0,
     during |-> 0, spawned |-> 0, rerun |-> FALSE, queuedAtEnd |-> FALSE,
     flagsAfter |-> <<FALSE, FALSE>>]

InFlight == {i \in 1..Len(runs) : ~runs[i].done}

\* The state machine's Idle: nothing running, nothing queued, nothing in flight
Idle == ~isRunning /\ ~isQueued /\ InFlight = {}

\* the invocations `started` are appended to the history as in flight
Started(rs, started, time) ==
    rs \o [k \in 1..Len(started) |-> NewRun(started[k], time)]

\* ------------------------------------------------ watch()
\* Raw globs are sequences of characters: "!" negates, "(" opens an extglob
Patterns == { <<>>, <<"!">>, <<"a">>, <<"b">>, <<"!", "a">>, <<"!", "b">>,
              <<"!", "(">> }
GlobLists == UNION {[1..k -> Patterns] : k \in 0..MaxGlobs}
DefaultEvents == {"add", "change", "unlink"}

\* A caller's option value: absent, a single value, or an array of values
Undefined == [kind |-> "undefined", items |-> <<>>]
Single(v) == [kind |-> "value", items |-> <<v>>]
Array(vs) == [kind |-> "array", items |-> vs]

\* Mutant: options.events is not read, the default names are subscribed
ConfigEventsDefault(opt) == DefaultEvents

\* config.events: the default when absent, a single name wrapped in an array
ConfigEvents(opt) ==
    IF opt.kind = "undefined" THEN DefaultEvents
    ELSE IF opt.kind = "value" THEN {opt.items[1]}
    ELSE {opt.items[k] : k \in 1..Len(opt.items)}

\* isNegatedGlob(glob): negated when the first character is "!" and the second
\* is not "("; the pattern is the glob without the leading "!"
IsNegatedGlob(g) ==
    IF Len(g) >= 1 /\ g[1] = "!" /\ ~(Len(g) >= 2 /\ g[2] = "(")
    THEN [negated |-> TRUE, pattern |-> Tail(g)]
    ELSE [negated |-> FALSE, pattern |-> g]

\* A slot of a sparse array: a hole, or the pattern stored at that index
Hole == <<>>
Slot(p) == <<p>>
\* Boolean(slot): a hole (undefined) and the empty string are falsy
Truthy(slot) == slot # Hole /\ slot[1] # <<>>

\* Mutant: the negated glob is stored with its "!"
IgnoredGlobsRaw(glob) ==
    [i \in 1..Len(glob) |->
        IF IsNegatedGlob(glob[i]).negated THEN Slot(glob[i]) ELSE Hole]

\* ignoredGlobs / watchedGlobs after the forEach: slot i holds pattern i of
\* the side it was classified to
IgnoredGlobs(glob) ==
    [i \in 1..Len(glob) |->
        IF IsNegatedGlob(glob[i]).negated
        THEN Slot(IsNegatedGlob(glob[i]).pattern) ELSE Hole]
WatchedGlobs(glob) ==
    [i \in 1..Len(glob) |->
        IF IsNegatedGlob(glob[i]).negated
        THEN Hole ELSE Slot(IsNegatedGlob(glob[i]).pattern)]

\* array.filter(Boolean), as patterns
RECURSIVE FilterTruthy(_)
FilterTruthy(a) ==
    IF a = <<>> THEN <<>>
    ELSE (IF Truthy(Head(a)) THEN <<Head(a)[1]>> ELSE <<>>) \o FilterTruthy(Tail(a))

Pending ==
    [status |-> "pending", error |-> NoError, watcher |-> FALSE, watched |-> <<>>,
     predicate |-> FALSE, subscribed |-> {}]

\* Mutant: no "Nothing to watch" failure, the watcher is always created
WatchAlways(glob, events, hasDone) ==
    [status |-> "returned", error |-> NoError, watcher |-> TRUE,
     watched |-> FilterTruthy(WatchedGlobs(glob)),
     predicate |-> \E i \in 1..Len(glob) : Truthy(IgnoredGlobs(glob)[i]),
     subscribed |-> IF hasDone THEN events ELSE {}]

\* Mutant: the handler is subscribed whether or not a task was passed
WatchSubscribesAlways(glob, events, hasDone) ==
    IF \E i \in 1..Len(glob) : Truthy(WatchedGlobs(glob)[i])
    THEN [status |-> "returned", error |-> NoError, watcher |-> TRUE,
          watched |-> FilterTruthy(WatchedGlobs(glob)),
          predicate |-> \E i \in 1..Len(glob) : Truthy(IgnoredGlobs(glob)[i]),
          subscribed |-> events]
    ELSE [status |-> "threw", error |-> NoWatch, watcher |-> FALSE,
          watched |-> <<>>,
          predicate |-> \E i \in 1..Len(glob) : Truthy(IgnoredGlobs(glob)[i]),
          subscribed |-> {}]

\* watch(glob, options, done) with options.events = events
Watch(glob, events, hasDone) ==
    LET ignoredGlobs == IgnoredGlobs(glob)
        watchedGlobs == WatchedGlobs(glob)
        predicate == \E i \in 1..Len(glob) : Truthy(ignoredGlobs[i])
    IN  IF \E i \in 1..Len(glob) : Truthy(watchedGlobs[i])
        THEN [status |-> "returned", error |-> NoError, watcher |-> TRUE,
              watched |-> FilterTruthy(watchedGlobs), predicate |-> predicate,
              subscribed |-> IF hasDone THEN events ELSE {}]
        ELSE [status |-> "threw", error |-> NoWatch, watcher |-> FALSE,
              watched |-> <<>>, predicate |-> predicate, subscribed |-> {}]

\* ------------------------------------------------ the ignore predicate
\* A glob or a path is a sequence of segments, the text between slashes: ""
\* is the empty text of a doubled or trailing slash, "*" matches one segment
\* and "**" any number of them; a raw glob may start with the mark "!"
GlobPatterns == { <<"src", "**">>,
                  <<"!", "src", "generated", "**">>,
                  <<"src", "generated", "keep.js">>,
                  <<"!", "src", "**">>,
                  <<"!", "src", "", "*", "keep.js">>,
                  <<"!">>,
                  <<>> }
GlobInputs == UNION {[1..k -> GlobPatterns] : k \in 0..MaxPatterns}
CwdOptions == { <<>>, <<"root", "">> }
IgnoredOptions == {Undefined, Single("x"), Array(<<"x", "y">>)}
MatchPaths == { <<"src", "generated", "keep.js">>,
                <<"src", "generated", "other.js">>,
                <<"src", "a.js">>,
                <<"lib", "a.js">>,
                <<"root", "src", "generated", "keep.js">>,
                <<"root", "src", "a.js">> }
NoMatchPath == <<>>

\* Mutant: the holes are filled with a pattern that matches every path
SparseGlobstar == <<"**">>

\* SPARSE: a random UUID, a pattern that is the path of no file
SPARSE == <<"00000000-0000-4000-8000-000000000000">>
\* The entry getIgnored appends: the function isPathIgnored
Predicate == "isPathIgnored"

\* Mutant: the holes are dropped instead of filled
ToUnsparseCompact(array) ==
    [i \in 1..Len(SelectSeq(array, LAMBDA slot : slot # Hole)) |->
        SelectSeq(array, LAMBDA slot : slot # Hole)[i][1]]

\* toUnsparse(array): every hole becomes SPARSE, the array is then dense
ToUnsparse(array) ==
    [i \in 1..Len(array) |-> IF array[i] = Hole THEN SPARSE ELSE array[i][1]]

\* normalizePath(glob): doubled slashes collapse, a trailing slash goes
NormalizePath(g) == SelectSeq(g, LAMBDA seg : seg # "")

\* getNormalizer(basePath)(glob)
Normalizer(basePath, g) ==
    IF basePath # <<>>
    THEN NormalizePath(basePath) \o NormalizePath(g)
    ELSE NormalizePath(g)

\* Mutant: map() visits the populated slots only and packs the results
MapNormalizerDense(basePath, array) ==
    [i \in 1..Len(SelectSeq(array, LAMBDA slot : slot # Hole)) |->
        Slot(Normalizer(basePath, SelectSeq(array, LAMBDA slot : slot # Hole)[i][1]))]

\* array.map(normalizer) on a sparse array: the holes stay holes
MapNormalizer(basePath, array) ==
    [i \in 1..Len(array) |->
        IF array[i] = Hole THEN Hole ELSE Slot(Normalizer(basePath, array[i][1]))]

\* array.reverse()
Reverse(array) == [i \in 1..Len(array) |-> array[Len(array) + 1 - i]]

\* anymatch's matcher for one pattern: the same string, or a glob match
RECURSIVE Match(_, _)
Match(pattern, path) ==
    IF pattern = <<>> THEN path = <<>>
    ELSE IF Head(pattern) = "**"
         THEN \/ Match(Tail(pattern), path)
              \/ path # <<>> /\ Match(pattern, Tail(path))
    ELSE /\ path # <<>>
         /\ Head(pattern) = "*" \/ Head(pattern) = Head(path)
         /\ Match(Tail(pattern), Tail(path))

\* anymatch(matchers, path, true): the 0-based index of the first matcher
\* that matches, -1 when none does
AnyMatch(matchers, path) ==
    LET hits == {i \in 1..Len(matchers) : Match(matchers[i], path)}
    IN  IF hits = {} THEN -1
        ELSE (CHOOSE i \in hits : \A k \in hits : i <= k) - 1

\* Mutant: a negated match counts only when a watched pattern matches too
IsPathIgnoredNeedsWatched(ignoredPaths, watchedPaths, path) ==
    LET ignoredIndex == AnyMatch(ignoredPaths, path)
        watchedIndex == AnyMatch(watchedPaths, path)
    IN  IF ignoredIndex = -1 THEN FALSE
        ELSE IF watchedIndex = -1 THEN FALSE
        ELSE ignoredIndex < watchedIndex

\* Mutant: the index comparison the other way round
IsPathIgnoredFlipped(ignoredPaths, watchedPaths, path) ==
    LET ignoredIndex == AnyMatch(ignoredPaths, path)
        watchedIndex == AnyMatch(watchedPaths, path)
    IN  IF ignoredIndex = -1 THEN FALSE
        ELSE IF watchedIndex = -1 THEN TRUE
        ELSE ignoredIndex > watchedIndex

\* isPathIgnored(path), over the arrays getIsPathIgnored closed over
IsPathIgnored(ignoredPaths, watchedPaths, path) ==
    LET ignoredIndex == AnyMatch(ignoredPaths, path)
        watchedIndex == AnyMatch(watchedPaths, path)
    IN  IF ignoredIndex = -1 THEN FALSE
        ELSE IF watchedIndex = -1 THEN TRUE
        ELSE ignoredIndex < watchedIndex

\* Mutant: the arrays are left in authoring order
GetIsPathIgnoredUnreversed(ignoredPaths, watchedPaths) ==
    [ignoredPaths |-> ignoredPaths, watchedPaths |-> watchedPaths]

\* getIsPathIgnored(ignoredPaths, watchedPaths): both arrays reversed in
\* place, the predicate closes over them
GetIsPathIgnored(ignoredPaths, watchedPaths) ==
    [ignoredPaths |-> Reverse(ignoredPaths), watchedPaths |-> Reverse(watchedPaths)]

\* [].concat(ignored, predicate): an array is spread, a single value appended
Concat(ignored, entry) ==
    Array((IF ignored.kind = "array" THEN ignored.items ELSE <<ignored.items[1]>>)
          \o <<entry>>)

\* getIgnored(basePath, ignored = [], ignoredGlobs, watchedGlobs)
GetIgnored(basePath, ignored, ignoredGlobs, watchedGlobs) ==
    LET ignoredPaths == ToUnsparse(MapNormalizer(basePath, ignoredGlobs))
        watchedPaths == ToUnsparse(MapNormalizer(basePath, watchedGlobs))
        closure == GetIsPathIgnored(ignoredPaths, watchedPaths)
    IN  [ignored |-> Concat(IF ignored.kind = "undefined" THEN Array(<<>>) ELSE ignored,
                            Predicate),
         ignoredPaths |-> closure.ignoredPaths,
         watchedPaths |-> closure.watchedPaths]

\* What watch() built, before it is called
PendingConfig ==
    [status |-> "pending", built |-> FALSE, ignored |-> Undefined,
     ignoredGlobs |-> <<>>, watchedGlobs |-> <<>>,
     ignoredPaths |-> <<>>, watchedPaths |-> <<>>, watched |-> <<>>,
     caller |-> <<>>]

\* Mutant: the caller's array is reversed in place instead of a copy
WatchConfigInPlace(glob, cwd, ignored) ==
    LET ignoredGlobs == IgnoredGlobs(glob)
        watchedGlobs == WatchedGlobs(glob)
        built == \E i \in 1..Len(glob) : Truthy(ignoredGlobs[i])
        got == GetIgnored(cwd, ignored, ignoredGlobs, watchedGlobs)
    IN  [status |-> IF \E i \in 1..Len(glob) : Truthy(watchedGlobs[i])
                    THEN "returned" ELSE "threw",
         built |-> built,
         ignoredGlobs |-> ignoredGlobs,
         watchedGlobs |-> watchedGlobs,
         ignored |-> IF built THEN got.ignored
                     ELSE IF ignored.kind = "undefined" THEN Array(<<>>) ELSE ignored,
         ignoredPaths |-> IF built THEN got.ignoredPaths ELSE <<>>,
         watchedPaths |-> IF built THEN got.watchedPaths ELSE <<>>,
         watched |-> FilterTruthy(watchedGlobs),
         caller |-> Reverse(glob)]

\* Mutant: getIgnored is called whether or not a pattern is negated
WatchConfigAlwaysIgnored(glob, cwd, ignored) ==
    LET ignoredGlobs == IgnoredGlobs(glob)
        watchedGlobs == WatchedGlobs(glob)
        got == GetIgnored(cwd, ignored, ignoredGlobs, watchedGlobs)
    IN  [status |-> IF \E i \in 1..Len(glob) : Truthy(watchedGlobs[i])
                    THEN "returned" ELSE "threw",
         built |-> TRUE,
         ignoredGlobs |-> ignoredGlobs,
         watchedGlobs |-> watchedGlobs,
         ignored |-> got.ignored,
         ignoredPaths |-> got.ignoredPaths,
         watchedPaths |-> got.watchedPaths,
         watched |-> FilterTruthy(watchedGlobs),
         caller |-> glob]

\* watch(glob, options, done) with options.cwd = cwd, options.ignored =
\* ignored: the glob array is duplicated and classified, config.ignored gets
\* the predicate if some ignored pattern is truthy, the truthy watched
\* patterns go to chokidar.watch; `caller` is the array the caller passed
WatchConfig(glob, cwd, ignored) ==
    LET ignoredGlobs == IgnoredGlobs(glob)
        watchedGlobs == WatchedGlobs(glob)
        built == \E i \in 1..Len(glob) : Truthy(ignoredGlobs[i])
        got == GetIgnored(cwd, ignored, ignoredGlobs, watchedGlobs)
    IN  [status |-> IF \E i \in 1..Len(glob) : Truthy(watchedGlobs[i])
                    THEN "returned" ELSE "threw",
         built |-> built,
         ignoredGlobs |-> ignoredGlobs,
         watchedGlobs |-> watchedGlobs,
         ignored |-> IF built THEN got.ignored
                     ELSE IF ignored.kind = "undefined" THEN Array(<<>>) ELSE ignored,
         ignoredPaths |-> IF built THEN got.ignoredPaths ELSE <<>>,
         watchedPaths |-> IF built THEN got.watchedPaths ELSE <<>>,
         watched |-> FilterTruthy(watchedGlobs),
         caller |-> glob]

\* No glob array under study: the predicate part of watch() is not exercised
InitGlobIdle ==
    /\ gInput = <<>>
    /\ gGlob = <<>>
    /\ gCwd = <<>>
    /\ gIgnoredOpt = Undefined
    /\ gConfig = PendingConfig
    /\ gPath = NoMatchPath
    /\ gAnswer = FALSE

\* ------------------------------------------------ getDebounced
\* getDebounced's onRunStart(): what it leaves in isRunning / isQueued and
\* whether it hands the task to asyncDone
DebouncedOnRunStart(isR, isQ, q) ==
    IF isR
    THEN [isRunning |-> isR, isQueued |-> IF q THEN TRUE ELSE isQ, invoke |-> FALSE]
    ELSE [isRunning |-> TRUE, isQueued |-> isQ, invoke |-> TRUE]

\* getDebounced's onRunEnd(e)
DebouncedOnRunEnd(isR, isQ, q, listeners, e) ==
    LET events == IF e # NoError /\ HasErrorListener(listeners) THEN <<e>> ELSE <<>>
    IN  IF isQ
        THEN LET s == DebouncedOnRunStart(FALSE, FALSE, q)
             IN  [isRunning |-> s.isRunning, isQueued |-> s.isQueued,
                  invoke |-> s.invoke, events |-> events]
        ELSE [isRunning |-> FALSE, isQueued |-> isQ, invoke |-> FALSE,
              events |-> events]

\* The coordinator getDebounced returns: let isQueued = false, isRunning =
\* false; no invocation yet, nothing emitted
NewDebounced ==
    [isRunning |-> FALSE, isQueued |-> FALSE, runs |-> <<>>, emitted |-> <<>>]

\* No second coordinator under study
InitPeersIdle ==
    /\ debounced = NewDebounced
    /\ closures = <<>>
    /\ watchers = <<>>

\* ------------------------------------------------ initial states
\* The coordinator just returned by getEventHandler, inside a watch() call that
\* was given one positive glob and a task
InitCoordinator ==
    /\ queue \in BOOLEAN
    /\ isRunning = FALSE
    /\ isQueued = FALSE
    /\ timer = NoTimer
    /\ now = 0
    /\ nEvents = 0
    /\ lastEventAt = 0
    /\ timerN = NoStats
    /\ burst = 0
    /\ lastBurst = 0
    /\ fires = 0
    /\ burstBase = 0
    /\ burstIdle = TRUE
    /\ runs = <<>>
    /\ errorListeners \in 0..MaxListeners
    /\ emitted = <<>>
    /\ thrown = FALSE

Init ==
    /\ InitCoordinator
    /\ wGlob = << <<"a">> >>
    /\ wHasDone = TRUE
    /\ wEventsOpt = Undefined
    /\ wResult = Watch(wGlob, ConfigEvents(wEventsOpt), wHasDone)
    /\ lastName = "none"
    /\ seenNames = {}
    /\ InitGlobIdle
    /\ InitPeersIdle

\* ------------------------------------------------ the coordinator's steps
\* handleEvent(path, stats): the debounced handler, as subscribed by
\* watcher.on; debounce keeps both arguments of the latest call
HandleEventWith(path, stats) ==
    /\ nEvents < MaxEvents
    /\ timer' = Debounced(timer, now, path)
    /\ timerN' = stats
    /\ nEvents' = nEvents + 1
    /\ lastEventAt' = now
    /\ burst' = burst + 1
    /\ burstBase' = IF timer.armed THEN burstBase ELSE Len(runs)
    /\ burstIdle' = IF timer.armed THEN burstIdle ELSE Idle
    /\ UNCHANGED <<queue, isRunning, isQueued, now, lastBurst, fires, runs,
                   errorListeners, emitted, thrown>>

\* handleEvent(path): the handler called with the path alone
HandleEvent(path) == HandleEventWith(path, NoStats)

\* The watcher emits a subscribed event for `path`: the debounced handler runs
Event(path) ==
    /\ HandleEvent(path)
    /\ UNCHANGED watchVars
    /\ UNCHANGED subVars
    /\ UNCHANGED globVars
    /\ UNCHANGED peerVars

\* Time passes; a pending timeout expires at its deadline, not after it
Tick ==
    /\ now < MaxTime
    /\ timer.armed => now < timer.deadline
    /\ now' = now + 1
    /\ UNCHANGED <<queue, isRunning, isQueued, timer, nEvents, lastEventAt, timerN, burst, lastBurst,
                   fires, burstBase, burstIdle, runs, errorListeners, emitted, thrown>>
    /\ UNCHANGED watchVars
    /\ UNCHANGED subVars
    /\ UNCHANGED globVars
    /\ UNCHANGED peerVars

\* The debounce timeout expires: run() clears it and calls onRunStart with the
\* arguments of the latest call
TimerFireStep ==
    /\ timer.armed
    /\ now = timer.deadline
    /\ LET r == OnRunStart(isRunning, isQueued, queue, timer.path, DefaultN(timerN))
           seen == [i \in 1..Len(runs) |->
                       IF runs[i].done THEN runs[i]
                       ELSE [runs[i] EXCEPT !.during = @ + 1,
                                            !.spawned = @ + Len(r.invoke)]]
       IN  /\ isRunning' = r.isRunning
           /\ isQueued' = r.isQueued
           /\ runs' = Started(seen, r.invoke, now)
    /\ timer' = NoTimer
    /\ timerN' = NoStats
    /\ lastBurst' = burst
    /\ burst' = 0
    /\ fires' = fires + 1
    /\ UNCHANGED <<queue, now, nEvents, lastEventAt, burstBase, burstIdle, errorListeners,
                   emitted, thrown>>

TimerFire ==
    /\ TimerFireStep
    /\ UNCHANGED watchVars
    /\ UNCHANGED subVars
    /\ UNCHANGED globVars
    /\ UNCHANGED peerVars

\* Invocation i signals completion with e (NoError for success): asyncDone calls
\* the onRunEnd made for that invocation, once
CompleteStep(i, e) ==
    /\ i \in InFlight
    /\ LET r == OnRunEnd(isRunning, isQueued, queue, errorListeners, e,
                         runs[i].path, runs[i].n)
           seen == [j \in 1..Len(runs) |->
                       IF runs[j].done THEN runs[j]
                       ELSE IF j = i
                       THEN [runs[j] EXCEPT !.done = TRUE, !.endAt = now, !.err = e,
                                            !.listenersAtEnd = errorListeners,
                                            !.spawned = @ + Len(r.invoke),
                                            !.rerun = (r.invoke # <<>>),
                                            !.queuedAtEnd = isQueued,
                                            !.flagsAfter =
                                                <<r.isRunning, r.isQueued>>]
                       ELSE [runs[j] EXCEPT !.spawned = @ + Len(r.invoke)]]
       IN  /\ isRunning' = r.isRunning
           /\ isQueued' = r.isQueued
           /\ runs' = Started(seen, r.invoke, now)
           /\ emitted' = emitted \o [k \in 1..Len(r.events) |->
                                        [run |-> i, payload |-> r.events[k]]]
           /\ thrown' = (thrown \/ r.thrown)
    /\ UNCHANGED <<queue, timer, now, nEvents, lastEventAt, timerN, burst, lastBurst, fires,
                   burstBase, burstIdle, errorListeners>>

Complete(i, e) ==
    /\ CompleteStep(i, e)
    /\ UNCHANGED watchVars
    /\ UNCHANGED subVars
    /\ UNCHANGED globVars
    /\ UNCHANGED peerVars

\* The caller registers / removes an 'error' listener on the returned watcher
AddErrorListener ==
    /\ errorListeners < MaxListeners
    /\ errorListeners' = errorListeners + 1
    /\ UNCHANGED <<queue, isRunning, isQueued, timer, now, nEvents, lastEventAt, timerN, burst,
                   lastBurst, fires, burstBase, burstIdle, runs, emitted, thrown>>
    /\ UNCHANGED watchVars
    /\ UNCHANGED subVars
    /\ UNCHANGED globVars
    /\ UNCHANGED peerVars

RemoveErrorListener ==
    /\ errorListeners > 0
    /\ errorListeners' = errorListeners - 1
    /\ UNCHANGED <<queue, isRunning, isQueued, timer, now, nEvents, lastEventAt, timerN, burst,
                   lastBurst, fires, burstBase, burstIdle, runs, emitted, thrown>>
    /\ UNCHANGED watchVars
    /\ UNCHANGED subVars
    /\ UNCHANGED globVars
    /\ UNCHANGED peerVars

Next ==
    \/ \E path \in Paths : Event(path)
    \/ Tick
    \/ TimerFire
    \/ \E i \in 1..Len(runs) : \E e \in Errors \cup {NoError} : Complete(i, e)
    \/ AddErrorListener
    \/ RemoveErrorListener

Spec == Init /\ [][Next]_vars

\* ------------------------------------------------ the coordinator, scheduled
\* The event loop runs every timeout that is due and the clock does not stop;
\* every invocation signals completion; an event is delivered only while the
\* clock's bound leaves room for its debounce window
EventInTime(path) ==
    /\ now + Delay <= MaxTime
    /\ Event(path)

CompleteSome ==
    \E i \in 1..Len(runs) : \E e \in Errors \cup {NoError} : Complete(i, e)

NextLive ==
    \/ \E path \in Paths : EventInTime(path)
    \/ Tick
    \/ TimerFire
    \/ CompleteSome

SpecLive ==
    /\ Init
    /\ [][NextLive]_vars
    /\ WF_vars(Tick)
    /\ WF_vars(TimerFire)
    /\ WF_vars(CompleteSome)

\* ------------------------------------------------ watch() as a call
InitWatch ==
    /\ InitCoordinator
    /\ wGlob \in GlobLists
    /\ wHasDone \in BOOLEAN
    /\ wResult = Pending
    /\ wEventsOpt = Undefined
    /\ lastName = "none"
    /\ seenNames = {}
    /\ InitGlobIdle
    /\ InitPeersIdle

WatchCall ==
    /\ wResult.status = "pending"
    /\ wResult' = Watch(wGlob, ConfigEvents(wEventsOpt), wHasDone)
    /\ UNCHANGED <<wGlob, wHasDone>>
    /\ UNCHANGED coordVars
    /\ UNCHANGED subVars
    /\ UNCHANGED globVars
    /\ UNCHANGED peerVars

NextWatch == WatchCall

SpecWatch == InitWatch /\ [][NextWatch]_vars

\* ------------------------------------------------ subscription to events
\* watch() returned: any events option, with or without a task; the tasks
\* succeed and the 'error' listeners stay as they were registered
EventNames == {"add", "change", "unlink", "addDir"}
EventsOptions == {Undefined, Single("add"), Array(<<"add", "change">>)}

InitSub ==
    /\ InitCoordinator
    /\ wGlob = << <<"a">> >>
    /\ wHasDone \in BOOLEAN
    /\ wEventsOpt \in EventsOptions
    /\ wResult = Watch(wGlob, ConfigEvents(wEventsOpt), wHasDone)
    /\ lastName = "none"
    /\ seenNames = {}
    /\ InitGlobIdle
    /\ InitPeersIdle

\* The watcher emits the event `name` for `path`: a handler runs only if
\* watcher.on(name, handleEvent) subscribed one
WatcherEmit(name, path) ==
    /\ nEvents < MaxEvents
    /\ lastName' = name
    /\ IF name \in wResult.subscribed
       THEN HandleEvent(path)
       ELSE /\ nEvents' = nEvents + 1
            /\ UNCHANGED <<queue, isRunning, isQueued, timer, now, lastEventAt, timerN,
                           burst, lastBurst, fires, burstBase, burstIdle, runs,
                           errorListeners, emitted, thrown>>
    /\ UNCHANGED watchVars
    /\ UNCHANGED <<wEventsOpt, seenNames>>
    /\ UNCHANGED globVars
    /\ UNCHANGED peerVars

NextSub ==
    \/ \E name \in EventNames : \E path \in Paths : WatcherEmit(name, path)
    \/ Tick
    \/ TimerFire
    \/ \E i \in 1..Len(runs) : Complete(i, NoError)

SpecSub == InitSub /\ [][NextSub]_vars

\* ------------------------------------------------ events with their arguments
\* watch() returned with the default events and a task; the watcher emits
\* (name, path) or (name, path, stats), an 'unlink' never with stats; queue
\* is enabled and the tasks succeed
InitEmit ==
    /\ InitCoordinator
    /\ queue /\ errorListeners = 0
    /\ wGlob = << <<"a">> >>
    /\ wHasDone = TRUE
    /\ wEventsOpt = Undefined
    /\ wResult = Watch(wGlob, ConfigEvents(wEventsOpt), wHasDone)
    /\ lastName = "none"
    /\ seenNames = {}
    /\ InitGlobIdle
    /\ InitPeersIdle

StatsOf(name) == IF name = "unlink" THEN {NoStats} ELSE {NoStats, Stats}

\* Mutant: every event name has a handler of its own, an event of another
\* name than the last starts the task at once
WatcherEmitPerName(name, path, stats) ==
    /\ name \in wResult.subscribed
    /\ lastName' = name
    /\ seenNames' = seenNames \cup {name}
    /\ IF lastName \in {"none", name}
       THEN HandleEventWith(path, stats)
       ELSE /\ nEvents < MaxEvents
            /\ nEvents' = nEvents + 1
            /\ runs' = Started(runs, <<[path |-> path, n |-> DefaultN(stats)]>>, now)
            /\ UNCHANGED <<queue, isRunning, isQueued, timer, now, lastEventAt,
                           timerN, burst, lastBurst, fires, burstBase, burstIdle,
                           errorListeners, emitted, thrown>>
    /\ UNCHANGED watchVars
    /\ UNCHANGED wEventsOpt
    /\ UNCHANGED globVars
    /\ UNCHANGED peerVars

\* The watcher emits the subscribed event `name` with (path, stats): the one
\* handleEvent subscribed to every name is called with both
WatcherEmitArgs(name, path, stats) ==
    /\ name \in wResult.subscribed
    /\ lastName' = name
    /\ seenNames' = seenNames \cup {name}
    /\ HandleEventWith(path, stats)
    /\ UNCHANGED watchVars
    /\ UNCHANGED wEventsOpt
    /\ UNCHANGED globVars
    /\ UNCHANGED peerVars

NextEmit ==
    \/ \E name \in DefaultEvents : \E path \in Paths : \E stats \in StatsOf(name) :
          WatcherEmitArgs(name, path, stats)
    \/ Tick
    \/ TimerFire
    \/ \E i \in 1..Len(runs) : Complete(i, NoError)

SpecEmit == InitEmit /\ [][NextEmit]_vars

\* ------------------------------------------------ watch() and its predicate
\* watch() is called with any glob array, cwd and ignored option; the watcher
\* then asks the predicate about paths
InitGlob ==
    /\ InitCoordinator
    /\ queue /\ errorListeners = 0
    /\ wGlob = << <<"a">> >>
    /\ wHasDone = TRUE
    /\ wEventsOpt = Undefined
    /\ wResult = Watch(wGlob, ConfigEvents(wEventsOpt), wHasDone)
    /\ lastName = "none"
    /\ seenNames = {}
    /\ gInput \in GlobInputs
    /\ gGlob = gInput
    /\ gCwd \in CwdOptions
    /\ gIgnoredOpt \in IgnoredOptions
    /\ gConfig = PendingConfig
    /\ gPath = NoMatchPath
    /\ gAnswer = FALSE
    /\ InitPeersIdle

\* watch(glob, { cwd, ignored })
WatchGlobs ==
    /\ gConfig.status = "pending"
    /\ gConfig' = WatchConfig(gGlob, gCwd, gIgnoredOpt)
    /\ gGlob' = gConfig'.caller
    /\ UNCHANGED <<gInput, gCwd, gIgnoredOpt, gPath, gAnswer>>
    /\ UNCHANGED coordVars
    /\ UNCHANGED watchVars
    /\ UNCHANGED subVars
    /\ UNCHANGED peerVars

\* picomatch compiles non-empty patterns only
Compilable(matchers) == \A i \in 1..Len(matchers) : matchers[i] # <<>>

\* The watcher calls config.ignored's predicate with a path
IsPathIgnoredCall(path) ==
    /\ gConfig.status = "returned"
    /\ gConfig.built
    /\ Compilable(gConfig.ignoredPaths) /\ Compilable(gConfig.watchedPaths)
    /\ gPath' = path
    /\ gAnswer' = IsPathIgnored(gConfig.ignoredPaths, gConfig.watchedPaths, path)
    /\ UNCHANGED <<gInput, gGlob, gCwd, gIgnoredOpt, gConfig>>
    /\ UNCHANGED coordVars
    /\ UNCHANGED watchVars
    /\ UNCHANGED subVars
    /\ UNCHANGED peerVars

NextGlob ==
    \/ WatchGlobs
    \/ \E path \in MatchPaths : IsPathIgnoredCall(path)

SpecGlob == InitGlob /\ [][NextGlob]_vars

\* ------------------------------------------------ the claims
\* A step in which the debounce window expires
Fired == timer.armed /\ ~timer'.armed
\* Nothing in flight and no debounce window pending
Quiescent == InFlight = {} /\ ~timer.armed
\* The 'error' events emitted for invocation i
EmittedFor(i) == {k \in 1..Len(emitted) : emitted[k].run = i}

\* C1: at most one invocation of the task is in flight at any time, however
\* many events arrive and even if an invocation never completes.
C1_AtMostOneInFlight == Cardinality(InFlight) <= 1

\* C2: a burst of N >= 1 events that begins in Idle, each event less than
\* `delay` after the previous one, starts no invocation while its window is
\* pending and exactly one once the window has expired.
C2_BurstRunsOnce ==
    burstIdle =>
        IF burst >= 1
        THEN Len(runs) = burstBase
        ELSE lastBurst >= 1 => Len(runs) = burstBase + 1
C2_Witness ==
    /\ burstIdle /\ burst = 0 /\ lastBurst >= 2 /\ burstBase >= 1
    /\ Len(runs) = burstBase + 1
    /\ Quiescent

\* C3: when the first invocation stays in flight longer than the delay and
\* every later debounce window expires while it is in flight, then once
\* everything has completed there were exactly 2 invocations with queue
\* enabled and exactly 1 with queue disabled.
C3_Scenario ==
    /\ Len(runs) >= 1
    /\ runs[1].done
    /\ runs[1].endAt - runs[1].start > Delay
    /\ runs[1].during >= 1
    /\ fires = 1 + runs[1].during
C3_TwoOrOneInvocations ==
    (C3_Scenario /\ Quiescent) => Len(runs) = IF queue THEN 2 ELSE 1

\* C4: with queue enabled, when an invocation during which a debounced
\* trigger fired signals completion, a new invocation starts in that step.
C4_RerunAtCompletion ==
    [][\A i \in InFlight :
          (queue /\ runs[i].during >= 1 /\ runs'[i].done)
              => Len(runs') = Len(runs) + 1]_vars

\* C5: with queue enabled, however many debounced triggers fire during one
\* invocation, exactly one invocation is started on their account.
C5_OneRerunPerRun ==
    \A i \in 1..Len(runs) :
        (queue /\ runs[i].done /\ runs[i].during >= 1) => runs[i].spawned = 1

\* C6: with queue disabled, a debounced trigger that fires while an invocation
\* is in flight changes neither isRunning nor isQueued and starts nothing.
C6_DroppedWhileRunning ==
    [][(~queue /\ Fired /\ InFlight # {})
          => /\ Len(runs') = Len(runs)
             /\ isRunning' = isRunning
             /\ isQueued' = isQueued]_vars

\* C7: an invocation that fails with e while the watcher has an 'error'
\* listener gets exactly one 'error' event, and its payload is e.
C7_ErrorEmittedOnce ==
    \A i \in 1..Len(runs) :
        (runs[i].done /\ runs[i].err # NoError /\ runs[i].listenersAtEnd >= 1)
            => /\ Cardinality(EmittedFor(i)) = 1
               /\ \A k \in EmittedFor(i) : emitted[k].payload = runs[i].err
C7_Witness ==
    \E i \in 1..Len(runs) :
        /\ runs[i].done /\ runs[i].err = "e2" /\ runs[i].listenersAtEnd >= 1
        /\ \E k \in EmittedFor(i) : emitted[k].payload = "e2"

\* C8: an invocation that fails while the watcher has no 'error' listener
\* emits no 'error' event and nothing is thrown, for every failing run.
C8_ErrorSwallowed ==
    /\ ~thrown
    /\ \A i \in 1..Len(runs) :
          (runs[i].done /\ runs[i].err # NoError /\ runs[i].listenersAtEnd = 0)
              => EmittedFor(i) = {}
C8_Witness ==
    /\ ~thrown
    /\ emitted = <<>>
    /\ \E i, j \in 1..Len(runs) :
          /\ i # j
          /\ runs[i].done /\ runs[i].err # NoError /\ runs[i].listenersAtEnd = 0
          /\ runs[j].done /\ runs[j].err # NoError /\ runs[j].listenersAtEnd = 0

C10_NothingToWatch ==
    (wResult.status # "pending"
       /\ \A i \in 1..Len(wGlob) : IsNegatedGlob(wGlob[i]).negated)
        => /\ wResult.status = "threw"
           /\ wResult.error = NoWatch
           /\ ~wResult.watcher
           /\ wResult.subscribed = {}
C10_Witness ==
    /\ wResult.status = "threw"
    /\ Len(wGlob) = 2
    /\ \A i \in 1..Len(wGlob) : IsNegatedGlob(wGlob[i]).negated

\* C16: from Idle an invocation starts only when the debounce window expires,
\* exactly `delay` after the most recent event and never earlier, and the
\* expiry does start one (three events one tick apart: one invocation, `delay`
\* after the third).
C16_StartsDelayAfterLastEvent ==
    /\ [](timer.armed => (timer.deadline = lastEventAt + Delay /\ now <= timer.deadline))
    /\ [][(Idle /\ Len(runs') > Len(runs))
            => (Fired /\ now = lastEventAt + Delay)]_vars
    /\ [][(Idle /\ Fired)
            => /\ Len(runs') = Len(runs) + 1
               /\ runs'[Len(runs')].start = lastEventAt + Delay]_vars
C16_Witness ==
    /\ nEvents = 3 /\ lastBurst = 3 /\ burstIdle
    /\ lastEventAt = 2
    /\ Len(runs) = 1
    /\ runs[1].start = 2 + Delay

\* C17: a completion with no rerun queued leaves isRunning = isQueued = FALSE,
\* the next debounced trigger then starts an invocation, and triggers that
\* each fire with no invocation in flight start one invocation each (three
\* events, each after the previous run completed: three invocations).
C17_IdleAfterCompletion ==
    /\ [](\A i \in 1..Len(runs) :
            (runs[i].done /\ ~runs[i].queuedAtEnd)
                => runs[i].flagsAfter = <<FALSE, FALSE>>)
    /\ []((\A i \in 1..Len(runs) : runs[i].during = 0) => Len(runs) = fires)
    /\ [][(Fired /\ InFlight = {} /\ Len(runs) >= 1)
            => Len(runs') = Len(runs) + 1]_vars
C17_Witness ==
    /\ ~queue
    /\ nEvents = 3 /\ fires = 3 /\ Len(runs) = 3
    /\ \A i \in 1..3 : runs[i].during = 0
    /\ runs[1].done /\ runs[2].done
    /\ runs[2].start >= runs[1].endAt + Delay
    /\ runs[3].start >= runs[2].endAt + Delay

\* C20: (isRunning, isQueued) is always Idle (F,F), Running (T,F) or
\* RunningWithQueued (T,T): never isQueued without isRunning, and isQueued is
\* never TRUE when queue is disabled.
C20_RunStatePairs ==
    /\ <<isRunning, isQueued>> \in {<<FALSE, FALSE>>, <<TRUE, FALSE>>, <<TRUE, TRUE>>}
    /\ ~queue => ~isQueued
C20_Witness ==
    /\ InFlight # {}
    /\ fires >= 2
    /\ <<isRunning, isQueued>> = <<FALSE, FALSE>>

\* C18: only events whose name is in options.events (a single name counting
\* as a one-element list, the default when absent) reach the handler: an
\* event of another name changes neither the run state, nor the debounce
\* timer, nor the invocations.
C18_Named ==
    IF wEventsOpt.kind = "undefined" THEN {"add", "change", "unlink"}
    ELSE {wEventsOpt.items[k] : k \in 1..Len(wEventsOpt.items)}
C18_OnlySubscribedEvents ==
    /\ []((wHasDone /\ wResult.status = "returned") => wResult.subscribed = C18_Named)
    /\ [][(nEvents' = nEvents + 1 /\ lastName' \notin C18_Named)
            => UNCHANGED <<isRunning, isQueued, timer, runs>>]_vars
C18_Witness ==
    /\ wHasDone /\ wEventsOpt = Single("add")
    /\ nEvents = 3 /\ lastName = "change"
    /\ Len(runs) = 1 /\ runs[1].start = Delay
    /\ ~timer.armed
    /\ now > 2 * Delay

\* C19: without a task function watch() still creates and returns the watcher
\* for a non-empty watch-set, subscribes no handler, and no event ever arms
\* the debounce timer or starts an invocation.
C19_NoTaskNoInvocation ==
    ~wHasDone =>
        /\ wResult.status = "returned" /\ wResult.watcher
        /\ wResult.subscribed = {}
        /\ runs = <<>> /\ ~timer.armed /\ fires = 0
C19_Witness ==
    /\ ~wHasDone /\ wResult.watcher
    /\ nEvents = MaxEvents /\ lastName = "change"
    /\ now > Delay
    /\ runs = <<>>

\* C11: when the path matches at least one negated and at least one positive
\* pattern, the predicate returns true exactly when the last-authored
\* matching negated pattern has a higher original index than the
\* last-authored matching positive pattern.
C11_Authored(i) == Normalizer(gCwd, IsNegatedGlob(gInput[i]).pattern)
C11_Negated ==
    {i \in 1..Len(gInput) :
        IsNegatedGlob(gInput[i]).negated /\ Match(C11_Authored(i), gPath)}
C11_Positive ==
    {i \in 1..Len(gInput) :
        ~IsNegatedGlob(gInput[i]).negated /\ Match(C11_Authored(i), gPath)}
C11_Last(S) == CHOOSE i \in S : \A k \in S : k <= i
C12_List ==
    << <<"src", "**">>, <<"!", "src", "generated", "**">>,
       <<"src", "generated", "keep.js">> >>
C12_KeepReincluded ==
    (gInput = C12_List /\ gCwd = <<>>) =>
        /\ gPath = <<"src", "generated", "keep.js">> => ~gAnswer
        /\ gPath = <<"src", "generated", "other.js">> => gAnswer
C12_Witness ==
    /\ gInput = C12_List /\ gCwd = <<>>
    /\ gPath = <<"src", "generated", "other.js">>
    /\ gAnswer

\* C13: after watch(), and after any later evaluation of the predicate, the
\* caller's array has the length and the elements, in order, it was passed
\* with.
C13_CallerArrayKept ==
    /\ Len(gGlob) = Len(gInput)
    /\ \A i \in 1..Len(gInput) : gGlob[i] = gInput[i]
C13_Witness ==
    /\ gPath # NoMatchPath
    /\ Len(gInput) = 3 /\ gInput # Reverse(gInput)
    /\ gGlob = gInput
    /\ gConfig.ignoredPaths[1] = SPARSE
    /\ gConfig.watchedPaths[1] # SPARSE

\* C14: with no negated pattern in the list no predicate is built and the
\* `ignored` handed to the watcher is the caller's value, or the default
\* empty list.
C14_NoNegated ==
    \A i \in 1..Len(gInput) : gInput[i] = <<>> \/ gInput[i][1] # "!"
C14_IgnoredPassedThrough ==
    (gConfig.status = "returned" /\ C14_NoNegated) =>
        /\ ~gConfig.built
        /\ gConfig.ignored =
             IF gIgnoredOpt.kind = "undefined" THEN Array(<<>>) ELSE gIgnoredOpt
C14_Witness ==
    /\ gConfig.status = "returned" /\ C14_NoNegated
    /\ Len(gInput) = 2
    /\ gIgnoredOpt = Single("x")
    /\ gConfig.ignored = Single("x")

\* C15: when at least one pattern is negated, the `ignored` handed to the
\* watcher is the caller's entries (a single value or a list), in order,
\* followed by exactly one added entry, the predicate.
C15_CallerEntries ==
    IF gIgnoredOpt.kind = "undefined" THEN <<>> ELSE gIgnoredOpt.items
C15_PredicateAppended ==
    (gConfig.status = "returned" /\ ~C14_NoNegated) =>
        gConfig.ignored = Array(C15_CallerEntries \o <<Predicate>>)

\* C21: in every reachable state isRunning is true if and only if an
\* invocation of the task has been started and has not yet signalled
\* completion.
C21_RunningIffInFlight == isRunning <=> InFlight # {}

C23_Matching == {i \in 1..Len(gInput) : Match(C11_Authored(i), gPath)}
C23_Reference ==
    /\ C23_Matching # {}
    /\ IsNegatedGlob(gInput[C11_Last(C23_Matching)]).negated
C24_IsNegated(i) == gInput[i] # <<>> /\ gInput[i][1] = "!"
C24_ClassifiedBySlot ==
    gConfig.status # "pending" =>
        /\ Len(gConfig.ignoredGlobs) = Len(gInput)
        /\ Len(gConfig.watchedGlobs) = Len(gInput)
        /\ \A i \in 1..Len(gInput) :
              IF C24_IsNegated(i)
              THEN /\ gConfig.ignoredGlobs[i] = <<Tail(gInput[i])>>
                   /\ gConfig.watchedGlobs[i] = Hole
              ELSE /\ gConfig.watchedGlobs[i] = <<gInput[i]>>
                   /\ gConfig.ignoredGlobs[i] = Hole
C24_Witness ==
    /\ gConfig.status = "returned"
    /\ Len(gInput) = 3
    /\ C24_IsNegated(1) /\ C24_IsNegated(2) /\ ~C24_IsNegated(3)
    /\ gConfig.ignoredGlobs[2] # Hole /\ gConfig.watchedGlobs[2] = Hole

\* C25: a match index that is not -1, on either side, refers to a slot that
\* held a pattern, never one filled with the sentinel, so two such indices
\* are never equal.
C25_IgnoredIndex == AnyMatch(gConfig.ignoredPaths, gPath)
C25_WatchedIndex == AnyMatch(gConfig.watchedPaths, gPath)
C25_IndexOfRealPattern ==
    gPath # NoMatchPath =>
        /\ C25_IgnoredIndex >= 0 =>
              gConfig.ignoredGlobs[Len(gInput) - C25_IgnoredIndex] # Hole
        /\ C25_WatchedIndex >= 0 =>
              gConfig.watchedGlobs[Len(gInput) - C25_WatchedIndex] # Hole
        /\ (C25_IgnoredIndex >= 0 /\ C25_WatchedIndex >= 0) =>
              C25_IgnoredIndex # C25_WatchedIndex
C25_Witness ==
    /\ gPath # NoMatchPath
    /\ C25_IgnoredIndex = 1 /\ C25_WatchedIndex = 2
    /\ gConfig.ignoredPaths[1] = SPARSE /\ gConfig.watchedPaths[2] = SPARSE

\* C26: the arrays the predicate uses both have the length L of the input
\* and the pattern authored at (0-based) index i sits at index L-1-i of its
\* array, with the sentinel at that index of the other array.
C26_ReversedIndexAligned ==
    gConfig.built =>
        /\ Len(gConfig.ignoredPaths) = Len(gInput)
        /\ Len(gConfig.watchedPaths) = Len(gInput)
        /\ \A i \in 1..Len(gInput) :
              IF C24_IsNegated(i)
              THEN /\ gConfig.ignoredPaths[Len(gInput) + 1 - i] = C11_Authored(i)
                   /\ gConfig.watchedPaths[Len(gInput) + 1 - i] = SPARSE
              ELSE /\ gConfig.watchedPaths[Len(gInput) + 1 - i] = C11_Authored(i)
                   /\ gConfig.ignoredPaths[Len(gInput) + 1 - i] = SPARSE
C26_Witness ==
    /\ gConfig.built /\ Len(gInput) = 3 /\ gCwd # <<>>
    /\ C24_IsNegated(1) /\ ~C24_IsNegated(2) /\ ~C24_IsNegated(3)
    /\ gConfig.ignoredPaths = <<SPARSE, SPARSE, C11_Authored(1)>>

\* C27: the watch-set handed to the watcher is exactly the non-negated
\* patterns of the input, in authoring order.
C27_NonNegated == SelectSeq(gInput, LAMBDA g : ~(g # <<>> /\ g[1] = "!"))
C27_WatchSetIsPositives ==
    gConfig.status = "returned" => gConfig.watched = C27_NonNegated

\* C28: events of different subscribed names share one debounce timer and one
\* run state: an event of another name than the previous one, arriving while
\* the window is pending, re-arms that one timer and starts nothing, and an
\* 'add', a 'change' and an 'unlink' in one window give one invocation.
C28_SharedTimer ==
    /\ []((burst >= 1 /\ burst = nEvents) => runs = <<>>)
    /\ []((seenNames = {"add", "change", "unlink"} /\ nEvents = 3
             /\ burst = 0 /\ lastBurst = 3) => Len(runs) = 1)
    /\ [][(nEvents' = nEvents + 1 /\ timer.armed /\ lastName' # lastName)
            => /\ runs' = runs
               /\ isRunning' = isRunning /\ isQueued' = isQueued
               /\ timer'.armed /\ timer'.deadline = now + Delay]_vars
C28_Witness ==
    /\ seenNames = {"add", "change", "unlink"}
    /\ nEvents = 3 /\ burst = 0 /\ lastBurst = 3 /\ fires = 1
    /\ lastEventAt = 2
    /\ Len(runs) = 1 /\ runs[1].start = 2 + Delay

\* C29 as written: every invocation of the task receives a single argument,
\* the completion callback, and nothing else.
C29_CallbackOnly ==
    \A i \in 1..Len(runs) : Len(runs[i].args) = 1 /\ runs[i].args[1] = Callback

\* C29 as amended: every invocation of the task receives three arguments, the
\* completion callback first, then the path and the n that onRunStart was
\* called with (the arguments of the latest event, n being 1 when the event
\* had no second argument).
C29_CallbackPathN ==
    /\ [](\A i \in 1..Len(runs) :
            /\ Len(runs[i].args) = 3
            /\ runs[i].args[1] = Callback
            /\ runs[i].args[2] = runs[i].path
            /\ runs[i].args[3] = runs[i].n)
    /\ [][(Fired /\ Len(runs') = Len(runs) + 1)
            => runs'[Len(runs')].args =
                 <<Callback, timer.path, IF timerN = NoStats THEN 1 ELSE timerN>>]_vars
C29_Witness ==
    /\ Len(runs) = 2
    /\ runs[1].args = <<Callback, "a.js", 1>>
    /\ runs[2].args = <<Callback, "b.js", Stats>>

\* C30: with queue enabled, when an invocation made for path p with run count
\* n ends after a debounced trigger fired during it, the task is invoked
\* again in that step for p with run count n + 1; and the invocation a
\* debounce window starts has run count 1 and the path of the window's last
\* event.
C30_RerunSamePathNextCount ==
    /\ [][\A i \in InFlight :
            (queue /\ runs[i].during >= 1 /\ runs'[i].done)
                => /\ Len(runs') = Len(runs) + 1
                   /\ runs'[Len(runs')].path = runs[i].path
                   /\ runs'[Len(runs')].n = runs[i].n + 1]_vars
    /\ [][(Fired /\ Len(runs') = Len(runs) + 1)
            => /\ runs'[Len(runs')].n = 1
               /\ runs'[Len(runs')].path = timer.path]_vars

\* C31: with queue enabled and every invocation signalling completion, no
\* change is lost: for every delivered event there is an invocation of the
\* task that starts at or after the delivery of that event (lastEventAt only
\* grows, so an invocation at or after the latest delivery serves every
\* earlier one).
C31_NoChangeLost ==
    /\ []((queue /\ nEvents >= 1 /\ ~timer.armed)
            => \E i \in 1..Len(runs) : runs[i].start >= lastEventAt)
    /\ [](queue /\ nEvents >= 1
            => <>(\E i \in 1..Len(runs) : runs[i].start >= lastEventAt))
C31_Witness ==
    /\ queue /\ nEvents = 3 /\ ~timer.armed
    /\ Len(runs) = 2
    /\ runs[1].during = 1 /\ runs[1].done
    /\ runs[1].start < lastEventAt
    /\ runs[2].start >= lastEventAt

\* C33: with finitely many events, every invocation signalling completion and
\* the timer and completion steps fair, the coordinator ends up Idle with no
\* timer pending, for good, after no more invocations than events; it never
\* stays for ever in a state with isRunning set and nothing in flight.
C33_EventuallyIdle ==
    /\ <>[](Idle /\ ~timer.armed)
    /\ [](Len(runs) <= nEvents)
    /\ []<>(~(isRunning /\ InFlight = {}))
C33_Witness ==
    /\ Idle /\ ~timer.armed
    /\ nEvents = MaxEvents /\ Len(runs) = 3
    /\ runs[1].during >= 1
    /\ runs[2].err # NoError
    /\ now = MaxTime

\* C32: with queue enabled, when an invocation during which a debounced
\* trigger fired fails, the 'error' event is emitted (if a listener exists)
\* and the rerun is started in the completion step, the emission first;
\* the rerun starts whether or not the error was swallowed.
C32_ErrorBeforeRerun ==
    [][\A i \in InFlight :
          (queue /\ runs[i].during >= 1 /\ runs'[i].done /\ runs'[i].err # NoError)
              => /\ Len(runs') = Len(runs) + 1
                 /\ errorListeners >= 1 => Len(emitted') = Len(emitted) + 1
                 /\ errorListeners = 0 => emitted' = emitted]_vars

\* ------------------------------------------------ getEventHandler beside getDebounced
\* The invocations of getDebounced's task that have not called back
DebouncedInFlight ==
    {i \in 1..Len(debounced.runs) : ~debounced.runs[i].done}

\* getDebounced's debounced onRunStart, at the expiry both coordinators see
DebouncedTimerFire ==
    LET s == DebouncedOnRunStart(debounced.isRunning, debounced.isQueued, queue)
    IN  debounced' =
            [debounced EXCEPT
                !.isRunning = s.isRunning,
                !.isQueued = s.isQueued,
                !.runs = IF s.invoke
                         THEN @ \o <<[start |-> now, done |-> FALSE]>>
                         ELSE @]

\* asyncDone calls getDebounced's onRunEnd(e) for its i-th invocation
DebouncedComplete(i, e) ==
    LET r == DebouncedOnRunEnd(debounced.isRunning, debounced.isQueued, queue,
                               errorListeners, e)
        ended == [debounced.runs EXCEPT ![i].done = TRUE]
    IN  debounced' =
            [debounced EXCEPT
                !.isRunning = r.isRunning,
                !.isQueued = r.isQueued,
                !.runs = IF r.invoke
                         THEN ended \o <<[start |-> now, done |-> FALSE]>>
                         ELSE ended,
                !.emitted = @ \o r.events]

\* One debounce expiry, seen by both coordinators
PairTimerFire ==
    /\ TimerFireStep
    /\ DebouncedTimerFire
    /\ UNCHANGED <<closures, watchers>>
    /\ UNCHANGED watchVars
    /\ UNCHANGED subVars
    /\ UNCHANGED globVars

\* The i-th invocation of the task calls back with e, in each coordinator
\* that has an i-th invocation in flight
PairComplete(i, e) ==
    /\ i \in InFlight \cup DebouncedInFlight
    /\ IF i \in InFlight THEN CompleteStep(i, e) ELSE UNCHANGED coordVars
    /\ IF i \in DebouncedInFlight THEN DebouncedComplete(i, e)
                                  ELSE UNCHANGED debounced
    /\ UNCHANGED <<closures, watchers>>
    /\ UNCHANGED watchVars
    /\ UNCHANGED subVars
    /\ UNCHANGED globVars

NextPair ==
    \/ \E path \in Paths : Event(path)
    \/ Tick
    \/ PairTimerFire
    \/ \E i \in 1..MaxEvents : \E e \in Errors \cup {NoError} : PairComplete(i, e)

SpecPair == Init /\ [][NextPair]_vars

\* C34: given the same events, timer expiries, completions and queue
\* setting, getEventHandler has started its invocations at the same times
\* as getDebounced and has emitted the same 'error' events.
C34_SameInvocationsAndErrors ==
    /\ [i \in 1..Len(runs) |-> runs[i].start]
         = [i \in 1..Len(debounced.runs) |-> debounced.runs[i].start]
    /\ [k \in 1..Len(emitted) |-> emitted[k].payload] = debounced.emitted

\* ------------------------------------------------ two watch() calls
\* The watchers two watch() calls return
Watchers == {1, 2}

\* let isQueued = false, isRunning = false; debounce(onRunStart, delay): the
\* state one getEventHandler call creates
NewClosure ==
    [isRunning |-> FALSE, isQueued |-> FALSE, timer |-> NoTimer]

\* What has happened on one watcher: its events, and the invocations of its
\* task
NewWatcher ==
    [nEvents |-> 0, lastEventAt |-> 0, fires |-> 0, runs |-> <<>>]

\* (variant: isQueued, isRunning and the debounce timer at module level, one
\* for every watcher)
ClosureOfShared(c) == 1

\* The closure watcher c's handleEvent runs in: watch() calls
\* getEventHandler once per watcher, and each call has its own isQueued,
\* isRunning and debounce
ClosureOf(c) == c

InitTwo ==
    /\ InitCoordinator
    /\ wGlob = << <<"a">> >>
    /\ wHasDone = TRUE
    /\ wEventsOpt = Undefined
    /\ wResult = Watch(wGlob, ConfigEvents(wEventsOpt), wHasDone)
    /\ lastName = "none"
    /\ seenNames = {}
    /\ InitGlobIdle
    /\ debounced = NewDebounced
    /\ closures = [k \in Watchers |-> NewClosure]
    /\ watchers = [c \in Watchers |-> NewWatcher]

\* Watcher c emits an event: its handleEvent (re)arms its debounce timer
TwoEvent(c, path) ==
    /\ watchers[1].nEvents + watchers[2].nEvents < MaxEvents
    /\ closures' = [closures EXCEPT
                       ![ClosureOf(c)].timer = Debounced(@, now, path)]
    /\ watchers' = [watchers EXCEPT ![c].nEvents = @ + 1,
                                    ![c].lastEventAt = now]
    /\ UNCHANGED debounced
    /\ UNCHANGED coordVars
    /\ UNCHANGED watchVars
    /\ UNCHANGED subVars
    /\ UNCHANGED globVars

\* Time passes while no debounce timer of either watcher is due
TwoTick ==
    /\ \A k \in Watchers : closures[k].timer.armed => now < closures[k].timer.deadline
    /\ Tick

\* The debounce timer of watcher c expires: onRunStart
TwoTimerFire(c) ==
    LET k == ClosureOf(c)
        r == OnRunStart(closures[k].isRunning, closures[k].isQueued, queue,
                        closures[k].timer.path, DefaultN(NoStats))
    IN  /\ closures[k].timer.armed
        /\ now = closures[k].timer.deadline
        /\ closures' = [closures EXCEPT ![k].isRunning = r.isRunning,
                                        ![k].isQueued = r.isQueued,
                                        ![k].timer = NoTimer]
        /\ watchers' = [watchers EXCEPT
                           ![c].fires = @ + 1,
                           ![c].runs = Started(@, r.invoke, now)]
        /\ UNCHANGED debounced
        /\ UNCHANGED coordVars
        /\ UNCHANGED watchVars
        /\ UNCHANGED subVars
        /\ UNCHANGED globVars

\* The i-th invocation of watcher c's task calls back with e: onRunEnd
TwoComplete(c, i, e) ==
    /\ i \in 1..Len(watchers[c].runs)
    /\ ~watchers[c].runs[i].done
    /\ LET k == ClosureOf(c)
           r == OnRunEnd(closures[k].isRunning, closures[k].isQueued, queue,
                         errorListeners, e,
                         watchers[c].runs[i].path, watchers[c].runs[i].n)
       IN  /\ closures' = [closures EXCEPT ![k].isRunning = r.isRunning,
                                           ![k].isQueued = r.isQueued]
           /\ watchers' = [watchers EXCEPT
                              ![c].runs =
                                  Started([@ EXCEPT ![i].done = TRUE],
                                          r.invoke, now)]
    /\ UNCHANGED debounced
    /\ UNCHANGED coordVars
    /\ UNCHANGED watchVars
    /\ UNCHANGED subVars
    /\ UNCHANGED globVars

NextTwo ==
    \/ \E c \in Watchers : \E path \in Paths : TwoEvent(c, path)
    \/ TwoTick
    \/ \E c \in Watchers : TwoTimerFire(c)
    \/ \E c \in Watchers : \E i \in 1..MaxEvents :
           \E e \in Errors \cup {NoError} : TwoComplete(c, i, e)

SpecTwo == InitTwo /\ [][NextTwo]_vars

\* C35: run state is per coordinator. With two watchers from two watch()
\* calls, a step that is not on watcher c (no event, expiry or completion
\* of c) leaves c's isRunning, isQueued and debounce timer as they were;
\* and whatever is in flight on the other watcher, once c's window has
\* expired an invocation of c's task has started exactly Delay after c's
\* last event, and every invocation of c's task started at the expiry of
\* c's own window.
C35_PerCoordinator ==
    /\ [][\A c \in Watchers :
             watchers'[c] = watchers[c] => closures'[c] = closures[c]]_vars
    /\ [](\A c \in Watchers :
             (watchers[c].nEvents >= 1 /\ ~closures[c].timer.armed)
                 => \E i \in 1..Len(watchers[c].runs) :
                        watchers[c].runs[i].start
                            = watchers[c].lastEventAt + Delay)
    /\ [][\A c \in Watchers :
             Len(watchers'[c].runs) > Len(watchers[c].runs)
                 => /\ watchers[c].nEvents >= 1
                    /\ now = watchers[c].lastEventAt + Delay]_vars

\* An invocation on watcher 2 started at the end of its own window while an
\* earlier invocation on watcher 1 was, and still is, in flight
C35_Witness ==
    \E i \in 1..Len(watchers[1].runs) : \E j \in 1..Len(watchers[2].runs) :
        /\ ~watchers[1].runs[i].done
        /\ watchers[1].runs[i].start < watchers[2].runs[j].start
        /\ watchers[2].runs[j].start = watchers[2].lastEventAt + Delay
        /\ ~closures[1].isRunning /\ ~closures[2].isRunning

====
